---- MODULE Spec2Model ----
(***************************************************************************)
(* FollowRWSBot (src/main.py): a Telegram bot that scans the links and     *)
(* mentions of a message, checks them against a blocklist, merges the      *)
(* filters' results into one verdict and, on SCAM, deletes the message     *)
(* (admin mode) or posts a throttled warning (canary mode).                *)
(*                                                                         *)
(* Strings are sequences of one-character strings, so that lower(),        *)
(* sorted(), " ".join() and the host extraction are computed on the        *)
(* characters.  A Python call that may raise returns Ok(v) or Raise(e).    *)
(***************************************************************************)
EXTENDS Integers, Sequences, FiniteSets, TLC

\* Optional[T]: None is the empty sequence, a present value x is Some(x) = <<x>>
None == <<>>
Some(x) == <<x>>
Get(o) == o[1]

Ok(v) == [ok |-> TRUE, val |-> v]
Raise(e) == [ok |-> FALSE, exc |-> e]

\* a local binding: F applied to the value v
With(v, F(_)) == F(v)

\* the rest of a computation after a call that may raise: F applied to the
\* value returned, or the exception passed on
Then(r, F(_)) == IF r.ok THEN F(r.val) ELSE r

(***************************************************************************)
(* Characters and strings                                                  *)
(***************************************************************************)
UpperCase == <<"A","B","C","D","E","F","G","H","I","J","K","L","M",
               "N","O","P","Q","R","S","T","U","V","W","X","Y","Z">>
LowerCase == <<"a","b","c","d","e","f","g","h","i","j","k","l","m",
               "n","o","p","q","r","s","t","u","v","w","x","y","z">>

IndexIn(c, s) == IF \E i \in 1..Len(s) : s[i] = c
                 THEN CHOOSE i \in 1..Len(s) : s[i] = c
                 ELSE 0

\* ord(c) for the characters that occur in the model's messages
Ord(c) ==
    IF IndexIn(c, UpperCase) > 0 THEN 64 + IndexIn(c, UpperCase)
    ELSE IF IndexIn(c, LowerCase) > 0 THEN 96 + IndexIn(c, LowerCase)
    ELSE CASE c = " " -> 32
           [] c = "#" -> 35
           [] c = "." -> 46
           [] c = "/" -> 47
           [] c = ":" -> 58
           [] c = "?" -> 63
           [] c = "@" -> 64
           [] c = "[" -> 91
           [] c = "]" -> 93

\* str.lower on one character
LowerChar(c) == IF IndexIn(c, UpperCase) > 0 THEN LowerCase[IndexIn(c, UpperCase)] ELSE c

\* str.lower
StrLower(s) == [i \in 1..Len(s) |-> LowerChar(s[i])]

\* s < t for Python strings: lexicographic by code point
RECURSIVE StrLess(_, _)
StrLess(s, t) ==
    IF t = <<>> THEN FALSE
    ELSE IF s = <<>> THEN TRUE
    ELSE IF Ord(Head(s)) # Ord(Head(t)) THEN Ord(Head(s)) < Ord(Head(t))
    ELSE StrLess(Tail(s), Tail(t))

\* sorted(S) for a set of strings
RECURSIVE Sorted(_)
Sorted(S) ==
    IF S = {} THEN <<>>
    ELSE LET m == CHOOSE x \in S : \A y \in S \ {x} : StrLess(x, y)
         IN  <<m>> \o Sorted(S \ {m})

\* sep.join(strs)
RECURSIVE Join(_, _)
Join(sep, strs) ==
    IF strs = <<>> THEN <<>>
    ELSE IF Len(strs) = 1 THEN strs[1]
    ELSE strs[1] \o sep \o Join(sep, Tail(strs))

\* index of the first position >= from where sub starts in s, 0 if none (str.find + 1)
Find(s, sub, from) ==
    With({i \in from..(Len(s) - Len(sub) + 1) : SubSeq(s, i, i + Len(sub) - 1) = sub},
         LAMBDA hits : IF hits = {} THEN 0 ELSE CHOOSE i \in hits : \A j \in hits : i <= j)

(***************************************************************************)
(* Verdict, FilterResult                                                   *)
(***************************************************************************)
SAFE == 0
QUESTIONABLE == 10
SCAM == 20
Verdict == {SAFE, QUESTIONABLE, SCAM}

\* max() of two verdicts (IntEnum compares by value)
Max(a, b) == IF a >= b THEN a ELSE b

FilterResult(v, e) == [verdict |-> v, explanation |-> e]

\* FilterResult.empty()
empty == FilterResult(SAFE, None)

\* truth value of an Optional[List[str]]: None and [] are both falsy
Truthy(e) == e # None /\ Get(e) # <<>>

\* `e or []`
OrEmpty(e) == IF Truthy(e) THEN Get(e) ELSE <<>>

\* an append that keeps only one explanation when both results have one
appendOneExplanation(self, other) ==
    FilterResult(Max(self.verdict, other.verdict),
                 IF Truthy(self.explanation) THEN self.explanation
                 ELSE IF Truthy(other.explanation) THEN other.explanation
                 ELSE None)

\* an append that tests only its receiver's explanation
appendTestsSelfOnly(self, other) ==
    FilterResult(Max(self.verdict, other.verdict),
                 IF Truthy(self.explanation)
                 THEN Some(OrEmpty(self.explanation) \o OrEmpty(other.explanation))
                 ELSE None)

\* an append whose verdict is the verdict of the result appended last
appendLastVerdict(self, other) ==
    FilterResult(other.verdict,
                 IF Truthy(self.explanation) \/ Truthy(other.explanation)
                 THEN Some(OrEmpty(self.explanation) \o OrEmpty(other.explanation))
                 ELSE None)

\* FilterResult.append
append(self, other) ==
    FilterResult(Max(self.verdict, other.verdict),
                 IF Truthy(self.explanation) \/ Truthy(other.explanation)
                 THEN Some(OrEmpty(self.explanation) \o OrEmpty(other.explanation))
                 ELSE None)

(***************************************************************************)
(* Link extraction                                                         *)
(***************************************************************************)
DEFAULT_SCHEME == <<"h","t","t","p","s">>
SchemeSep == <<":","/","/">>

\* url_normalize's provide_url_scheme: a URL with no ":" among its first
\* seven characters gets the default scheme
ProvideUrlScheme(url) ==
    IF url = <<>> \/ (\E i \in 1..Len(url) : i <= 7 /\ url[i] = ":")
    THEN url
    ELSE DEFAULT_SCHEME \o SchemeSep \o url

\* rest up to its first "/", "?" or "#"
UpToDelimiter(rest) ==
    With({i \in 1..Len(rest) : rest[i] \in {"/", "?", "#"}},
         LAMBDA ends : IF ends = {} THEN rest
                       ELSE SubSeq(rest, 1, (CHOOSE i \in ends : \A j \in ends : i <= j) - 1))

\* the authority of a URL: what follows "://" up to the first "/", "?" or "#"
Netloc(url) ==
    With(Find(url, SchemeSep, 1),
         LAMBDA p : IF p = 0 THEN <<>> ELSE UpToDelimiter(SubSeq(url, p + 3, Len(url))))

\* urlsplit rejects an authority with an unbalanced bracket ("Invalid IPv6 URL")
InvalidNetloc(n) ==
    (\E i \in 1..Len(n) : n[i] = "[") # (\E i \in 1..Len(n) : n[i] = "]")

\* _host: url_normalize(url), then urlparse(...).netloc.  No try/except: a URL
\* that cannot be parsed raises ValueError out of _host.
_host(url) ==
    With(Netloc(ProvideUrlScheme(url)),
         LAMBDA n : IF InvalidNetloc(n) THEN Raise("ValueError") ELSE Ok(StrLower(n)))

\* Message.parse_entity: the entity's span of msg.text; RuntimeError when
\* the message has no text (a captioned media message)
parse_entity(msg, e) ==
    IF msg.text = None \/ Get(msg.text) = <<>>
    THEN Raise("RuntimeError")
    ELSE Ok(SubSeq(Get(msg.text), e.offset + 1, e.offset + e.length))

\* the reference one entity contributes: Ok(set of at most one string) or Raise
EntityLink(msg, e) ==
    IF e.type \in {"url", "text_link"} THEN
        Then(IF e.type = "url" THEN parse_entity(msg, e) ELSE Ok(Get(e.url)),
             LAMBDA link : Then(_host(link), LAMBDA h : Ok({h})))
    ELSE IF e.type = "mention" THEN
        Then(parse_entity(msg, e), LAMBDA mention : Ok({StrLower(mention)}))
    ELSE Ok({})

\* the loop of _collect_all_links over a list of entities, res the set so far;
\* the first exception leaves the loop
RECURSIVE CollectFrom(_, _, _)
CollectFrom(msg, es, res) ==
    IF es = <<>> THEN Ok(res)
    ELSE Then(EntityLink(msg, Head(es)),
              LAMBDA link : CollectFrom(msg, Tail(es), res \cup link))

\* _collect_all_links: itertools.chain(msg.entities, msg.caption_entities)
_collect_all_links(msg) == CollectFrom(msg, msg.entities \o msg.caption_entities, {})

(***************************************************************************)
(* BlocklistFilter                                                         *)
(***************************************************************************)
ExplanationPrefix ==
    <<"M","e","s","s","a","g","e"," ","m","e","n","t","i","o","n","s"," ",
      "b","l","o","c","k","e","d"," ","c","o","n","t","e","n","t",":"," ">>

\* the slots of an update that BlocklistFilter.assess walks, in order
Slots == <<"message", "edited_message">>

\* the slot assess scans: the first whose message is present and has a sender
\* ("none" when there is none)
AssessSlot(update) ==
    IF update.message # None /\ Get(update.message).from_user # None THEN "message"
    ELSE IF update.edited_message # None /\ Get(update.edited_message).from_user # None
         THEN "edited_message"
    ELSE "none"

\* BlocklistFilter.assess: Ok(FilterResult) or the exception of _collect_all_links
\* the verdict of assess for the intersection isec of links and blocklist
AssessIsec(isec) ==
    IF Cardinality(isec) # 0
    THEN FilterResult(SCAM, Some(<<ExplanationPrefix \o Join(<<" ">>, Sorted(isec))>>))
    ELSE FilterResult(SAFE, None)

\* the links assess collects: those of the slot it scans, none without such a slot
AssessLinks(update) ==
    With(AssessSlot(update),
         LAMBDA slot : IF slot = "none" THEN Ok({})
                       ELSE _collect_all_links(Get(update[slot])))

assess(blocklist, update) ==
    Then(AssessLinks(update), LAMBDA links : Ok(AssessIsec(links \cap blocklist)))

\* the loop of _handle_message over self._filters, verdict the result so far
RECURSIVE Aggregate(_, _, _)
Aggregate(filters, update, verdict) ==
    IF filters = <<>> THEN Ok(verdict)
    ELSE Then(assess(Head(filters).blocklist, update),
              LAMBDA r : Aggregate(Tail(filters), update, append(verdict, r)))

(***************************************************************************)
(* Inputs: messages, updates, configurations                               *)
(***************************************************************************)
Entity(type, offset, length, url) ==
    [type |-> type, offset |-> offset, length |-> length, url |-> url]

\* what a message carries: text with entities, or a caption with caption entities
Content(text, entities, caption, caption_entities) ==
    [text |-> text, entities |-> entities,
     caption |-> caption, caption_entities |-> caption_entities]

\* "hi", a bold span: no reference
ContentPlain ==
    Content(Some(<<"h","i">>), <<Entity("bold", 0, 2, None)>>, None, <<>>)
\* "Bad.io/x": one url span
ContentUrl ==
    Content(Some(<<"B","a","d",".","i","o","/","x">>), <<Entity("url", 0, 8, None)>>, None, <<>>)
\* "bad.io/x @Spam": a url span and a mention span
ContentUrlMention ==
    Content(Some(<<"b","a","d",".","i","o","/","x"," ","@","S","p","a","m">>),
            <<Entity("url", 0, 8, None), Entity("mention", 9, 5, None)>>, None, <<>>)
\* "a://[ Bad.io": a url span that urlsplit rejects, then a url span
ContentMalformed ==
    Content(Some(<<"a",":","/","/","["," ","B","a","d",".","i","o">>),
            <<Entity("url", 0, 5, None), Entity("url", 6, 6, None)>>, None, <<>>)
\* "ok.io @ok": references that are on no blocklist
ContentOther ==
    Content(Some(<<"o","k",".","i","o"," ","@","o","k">>),
            <<Entity("url", 0, 5, None), Entity("mention", 6, 3, None)>>, None, <<>>)
\* "go" linking to HTTP://BAD.IO/y?q
ContentTextLink ==
    Content(Some(<<"g","o">>),
            <<Entity("text_link", 0, 2,
                     Some(<<"H","T","T","P",":","/","/","B","A","D",".","I","O","/","y","?","q">>))>>,
            None, <<>>)
\* a photo with caption "Bad.io/x": one url span in the caption, no text
ContentCaptionUrl ==
    Content(None, <<>>, Some(<<"B","a","d",".","i","o","/","x">>), <<Entity("url", 0, 8, None)>>)
\* a photo with caption "go" linking to http://bad.io#f
ContentCaptionTextLink ==
    Content(None, <<>>, Some(<<"g","o">>),
            <<Entity("text_link", 0, 2,
                     Some(<<"h","t","t","p",":","/","/","b","a","d",".","i","o","#","f">>))>>)

AllContents == {ContentPlain, ContentUrl, ContentUrlMention, ContentMalformed, ContentOther,
                ContentTextLink, ContentCaptionUrl, ContentCaptionTextLink}

\* user ids: a sender, the bot (context.bot.id), another administrator
Ids == [user |-> 7, bot |-> 99, admin |-> 5]
Senders == {None, Some([id |-> Ids.user])}

Message(id, sender, c) ==
    [message_id |-> id, from_user |-> sender, text |-> c.text, entities |-> c.entities,
     caption |-> c.caption, caption_entities |-> c.caption_entities]

MessageId == [message |-> 1, edited_message |-> 2]

MessagesOf(slot, contents) ==
    {Message(MessageId[slot], s, c) : s \in Senders, c \in contents}

Chats == {1, 2}

Update(m, e, chat) == [message |-> m, edited_message |-> e, effective_chat |-> [id |-> chat]]

OptionOf(S) == {None} \cup {Some(x) : x \in S}

UpdatesOver(contents, chats) ==
    {Update(m, e, ch) : m \in OptionOf(MessagesOf("message", contents)),
                        e \in OptionOf(MessagesOf("edited_message", contents)),
                        ch \in chats}

\* every update over every content: the inputs of the one-message specification
AllUpdates == UpdatesOver(AllContents, {1})

\* the updates of the concurrent specification: as Telegram sends them, with at
\* most one of message and edited_message
Updates ==
    {u \in UpdatesOver({ContentPlain, ContentUrl}, Chats) :
        u.message = None \/ u.edited_message = None}

\* blocklist files, by name: the lines of each
Files ==
    [f1 |-> << <<"b","a","d",".","i","o">>, <<"@","s","p","a","m">> >>,
     f2 |-> << <<"@","s","p","a","m">> >>]

BlocklistRecord(f) == [filter |-> "blocklist", filename |-> f]

\* Config.filters of the configurations the bot is started with
Configs ==
    { <<>>,
      <<BlocklistRecord("f1")>>,
      <<BlocklistRecord("f2"), BlocklistRecord("f1")>>,
      <<BlocklistRecord("f1"), [filter |-> "regex", filename |-> "f2"]>> }

\* the instants at which the clock is read, in seconds
Instants == {0, 59, 60}

\* what get_chat_administrators may return: the ids of the chat's administrators
\* (a chat always has its owner), without or with the bot
AdminLists == {{Ids.admin}, {Ids.admin, Ids.bot}}

\* the concurrent invocations of _handle_message
NumInv == 2
Invs == 1..NumInv

\* the cooldown of canary mode, in seconds
COOLDOWN == 60

(***************************************************************************)
(* State                                                                   *)
(***************************************************************************)
VARIABLES
    cfg,         \* Config.filters the process was started with
    bot,         \* "new" before Bot(cfg), then "running", or "failed" if __init__ raised
    _filters,    \* Bot._filters
    _last_post,  \* Bot._last_post: None or Some(time of the last warning)
    clock,       \* datetime.datetime.now()
    inv,         \* the invocations of _handle_message, see Idle
    first,       \* a FilterResult: the receiver of the first append of a chain
    operands,    \* the FilterResults appended to it, in order
    result,      \* the result of the appends made so far
    appended     \* how many of the operands have been appended

foldVars == <<first, operands, result, appended>>
botVars == <<cfg, bot, _filters, _last_post, clock, inv>>
vars == <<cfg, bot, _filters, _last_post, clock, inv, first, operands, result, appended>>

\* an invocation that has not been called yet.  pc is the await the coroutine is
\* suspended at ("lookup", "delete", "send") or how it ended ("done", "raised");
\* scanned is the set of slots of the update whose message the filters have
\* scanned, and calls lists the calls it has issued on context.bot, in order
Idle ==
    [pc |-> "idle", update |-> None, scanned |-> {}, verdict |-> None, chat_id |-> 0,
     message_from |-> 0, reply_to |-> 0, admin_ids |-> None, now |-> None, exc |-> "",
     calls |-> <<>>]

Call(op, chat_id, message_id) == [op |-> op, chat_id |-> chat_id, message_id |-> message_id]

Init ==
    /\ cfg \in Configs
    /\ bot = "new"
    /\ _filters = <<>>
    /\ _last_post = None
    /\ clock = 0
    /\ inv = [i \in Invs |-> Idle]
    /\ first = empty
    /\ operands = <<>>
    /\ result = empty
    /\ appended = 0

(***************************************************************************)
(* Bot.__init__                                                            *)
(***************************************************************************)
FILTERS == {"blocklist"}

SeqToSet(q) == {q[k] : k \in 1..Len(q)}

\* BlocklistFilter.from_config
from_config(filename) == [blocklist |-> SeqToSet(Files[filename])]

\* a loader that skips the records whose type it does not know
RECURSIVE LoadFromSkipUnknown(_, _)
LoadFromSkipUnknown(records, res) ==
    IF records = <<>> THEN Ok(res)
    ELSE IF Head(records).filter \notin FILTERS THEN LoadFromSkipUnknown(Tail(records), res)
    ELSE LoadFromSkipUnknown(Tail(records), res \o <<from_config(Head(records).filename)>>)

\* Bot._load_filters: Ok(list of filters), or KeyError at the first record whose
\* type is not in FILTERS
RECURSIVE LoadFrom(_, _)
LoadFrom(records, res) ==
    IF records = <<>> THEN Ok(res)
    ELSE IF Head(records).filter \notin FILTERS THEN Raise("KeyError")
    ELSE LoadFrom(Tail(records), res \o <<from_config(Head(records).filename)>>)

_load_filters(filters) == LoadFrom(filters, <<>>)

\* Bot(cfg) in main()
BotInit ==
    /\ bot = "new"
    /\ With(_load_filters(cfg),
            LAMBDA res : IF res.ok
                         THEN /\ bot' = "running"
                              /\ _filters' = res.val
                              /\ _last_post' = None
                         ELSE /\ bot' = "failed"
                              /\ UNCHANGED <<_filters, _last_post>>)
    /\ UNCHANGED <<cfg, clock, inv>>
    /\ UNCHANGED foldVars

(***************************************************************************)
(* Bot._handle_message, up to its first await                              *)
(***************************************************************************)
\* `update.message or update.edited_message`
MsgOf(update) ==
    IF update.message # None THEN Get(update.message) ELSE Get(update.edited_message)

\* _handle_message after its loop over the filters, agg the loop's outcome: the
\* frame it leaves when it first suspends, returns or raises
AfterFilters(update, msg, agg) ==
    IF ~agg.ok
    THEN [Idle EXCEPT !.pc = "raised", !.update = Some(update), !.exc = agg.exc]
    ELSE IF agg.val.verdict = SCAM
    THEN IF msg.from_user = None
         THEN [Idle EXCEPT !.pc = "raised", !.update = Some(update),
                           !.verdict = Some(agg.val), !.exc = "AttributeError"]
         ELSE [Idle EXCEPT !.pc = "lookup", !.update = Some(update),
                           !.verdict = Some(agg.val),
                           !.chat_id = update.effective_chat.id,
                           !.message_from = Get(msg.from_user).id,
                           !.reply_to = msg.message_id,
                           !.calls = <<Call("get_chat_administrators",
                                            update.effective_chat.id, 0)>>]
    ELSE [Idle EXCEPT !.pc = "done", !.update = Some(update), !.verdict = Some(agg.val)]

\* the slots whose message the loop over the filters scans: every filter scans
\* the same one
ScannedBy(filters, update) ==
    IF filters = <<>> THEN {} ELSE {AssessSlot(update)} \ {"none"}

\* the frame _handle_message(update) leaves when it first suspends, returns or raises
HandleMessageFrame(filters, update) ==
    IF update.message = None /\ update.edited_message = None
    THEN [Idle EXCEPT !.pc = "done", !.update = Some(update)]
    ELSE [AfterFilters(update, MsgOf(update), Aggregate(filters, update, empty))
            EXCEPT !.scanned = ScannedBy(filters, update)]

\* the transport calls _handle_message(update); invocations are numbered in the
\* order they are called
HandleMessage(i, update) ==
    /\ bot = "running"
    /\ inv[i].pc = "idle"
    /\ IF i = 1 THEN TRUE ELSE inv[i - 1].pc # "idle"
    /\ inv' = [inv EXCEPT ![i] = HandleMessageFrame(_filters, update)]
    /\ UNCHANGED <<cfg, bot, _filters, _last_post, clock>>
    /\ UNCHANGED foldVars

(***************************************************************************)
(* Bot._handle_scam                                                        *)
(***************************************************************************)
\* a throttle test that also suppresses a warning exactly COOLDOWN seconds after
\* the last one
ThrottledInclusive(last_post, now) == last_post # None /\ now - Get(last_post) <= COOLDOWN

\* the throttle test of canary mode
Throttled(last_post, now) == last_post # None /\ now - Get(last_post) < COOLDOWN

\* an enforcement step that applies the throttle before it looks at the mode
AfterAdminsThrottleFirst(f, admins, last_post, now) ==
    IF Throttled(last_post, now)
    THEN [f EXCEPT !.pc = "done", !.admin_ids = Some(admins), !.now = Some(now)]
    ELSE IF Ids.bot \in admins
    THEN [f EXCEPT !.pc = "delete", !.admin_ids = Some(admins),
                   !.calls = @ \o <<Call("delete_message", f.chat_id, f.reply_to)>>]
    ELSE [f EXCEPT !.pc = "send", !.admin_ids = Some(admins), !.now = Some(now),
                   !.calls = @ \o <<Call("send_message", f.chat_id, f.reply_to)>>]

\* an enforcement step with one cooldown per chat: only a warning sent in the
\* chat of the message throttles
AfterAdminsPerChat(f, admins, last_post, now) ==
    IF Ids.bot \in admins
    THEN [f EXCEPT !.pc = "delete", !.admin_ids = Some(admins),
                   !.calls = @ \o <<Call("delete_message", f.chat_id, f.reply_to)>>]
    ELSE IF /\ Throttled(last_post, now)
            /\ \E k \in Invs : /\ inv[k].pc = "done"
                               /\ inv[k].chat_id = f.chat_id
                               /\ inv[k].now = last_post
    THEN [f EXCEPT !.pc = "done", !.admin_ids = Some(admins), !.now = Some(now)]
    ELSE [f EXCEPT !.pc = "send", !.admin_ids = Some(admins), !.now = Some(now),
                   !.calls = @ \o <<Call("send_message", f.chat_id, f.reply_to)>>]

\* _handle_scam from the return of get_chat_administrators to its next await or
\* its end: the frame f of the invocation afterwards.  now is what
\* datetime.datetime.now() returns, read in canary mode only
AfterAdmins(f, admins, last_post, now) ==
    IF Ids.bot \in admins
    THEN [f EXCEPT !.pc = "delete", !.admin_ids = Some(admins),
                   !.calls = @ \o <<Call("delete_message", f.chat_id, f.reply_to)>>]
    ELSE IF Throttled(last_post, now)
    THEN [f EXCEPT !.pc = "done", !.admin_ids = Some(admins), !.now = Some(now)]
    ELSE [f EXCEPT !.pc = "send", !.admin_ids = Some(admins), !.now = Some(now),
                   !.calls = @ \o <<Call("send_message", f.chat_id, f.reply_to)>>]

\* a suppressed warning that restarts the cooldown: the throttled branch stamps
\* _last_post too
AdminsReturnStampsThrottled(i, admins) ==
    /\ inv[i].pc = "lookup"
    /\ inv' = [inv EXCEPT ![i] = AfterAdmins(inv[i], admins, _last_post, clock)]
    /\ _last_post' = IF Ids.bot \notin admins /\ Throttled(_last_post, clock)
                     THEN Some(clock) ELSE _last_post
    /\ UNCHANGED <<cfg, bot, _filters, clock>>
    /\ UNCHANGED foldVars

\* get_chat_administrators returned admins
AdminsReturn(i, admins) ==
    /\ inv[i].pc = "lookup"
    /\ inv' = [inv EXCEPT ![i] = AfterAdmins(inv[i], admins, _last_post, clock)]
    /\ UNCHANGED <<cfg, bot, _filters, _last_post, clock>>
    /\ UNCHANGED foldVars

\* a failure of send_message that is retried: the enforcement step starts over
\* with a new administrator lookup
CallFailsRetriesSend(i) ==
    /\ inv[i].pc \in {"lookup", "delete", "send"}
    /\ inv' = IF inv[i].pc = "send"
              THEN [inv EXCEPT ![i].pc = "lookup", ![i].admin_ids = None, ![i].now = None,
                               ![i].calls = <<inv[i].calls[1]>>]
              ELSE [inv EXCEPT ![i].pc = "raised", ![i].exc = "TelegramError"]
    /\ UNCHANGED <<cfg, bot, _filters, _last_post, clock>>
    /\ UNCHANGED foldVars

\* a failure path that records the attempt: a failed send_message still stamps
\* the throttle with the time the invocation read
CallFailsStamped(i) ==
    /\ inv[i].pc \in {"lookup", "delete", "send"}
    /\ inv' = [inv EXCEPT ![i].pc = "raised", ![i].exc = "TelegramError"]
    /\ _last_post' = IF inv[i].pc = "send" THEN inv[i].now ELSE _last_post
    /\ UNCHANGED <<cfg, bot, _filters, clock>>
    /\ UNCHANGED foldVars

\* an awaited call on context.bot raised: the exception leaves _handle_scam and
\* _handle_message
CallFails(i) ==
    /\ inv[i].pc \in {"lookup", "delete", "send"}
    /\ inv' = [inv EXCEPT ![i].pc = "raised", ![i].exc = "TelegramError"]
    /\ UNCHANGED <<cfg, bot, _filters, _last_post, clock>>
    /\ UNCHANGED foldVars

\* an admin mode that goes on to warn once the message is deleted
DeleteReturnThenWarn(i) ==
    /\ inv[i].pc = "delete"
    /\ inv' = [inv EXCEPT ![i].pc = "send", ![i].now = Some(clock),
                          ![i].calls = @ \o <<Call("send_message", inv[i].chat_id,
                                                   inv[i].reply_to)>>]
    /\ UNCHANGED <<cfg, bot, _filters, _last_post, clock>>
    /\ UNCHANGED foldVars

\* delete_message returned
DeleteReturn(i) ==
    /\ inv[i].pc = "delete"
    /\ inv' = [inv EXCEPT ![i].pc = "done"]
    /\ UNCHANGED <<cfg, bot, _filters, _last_post, clock>>
    /\ UNCHANGED foldVars

\* send_message returned: self._last_post = now
SendReturn(i) ==
    /\ inv[i].pc = "send"
    /\ _last_post' = inv[i].now
    /\ inv' = [inv EXCEPT ![i].pc = "done"]
    /\ UNCHANGED <<cfg, bot, _filters, clock>>
    /\ UNCHANGED foldVars

\* time passes
Tick(t) ==
    /\ t > clock
    /\ clock' = t
    /\ UNCHANGED <<cfg, bot, _filters, _last_post, inv>>
    /\ UNCHANGED foldVars

Next ==
    \/ BotInit
    \/ \E i \in Invs, u \in Updates : HandleMessage(i, u)
    \/ \E i \in Invs, a \in AdminLists : AdminsReturn(i, a)
    \/ \E i \in Invs : CallFails(i)
    \/ \E i \in Invs : DeleteReturn(i)
    \/ \E i \in Invs : SendReturn(i)
    \/ \E t \in Instants : Tick(t)

\* _handle_message invoked concurrently, as section 5 of the design assumes
Spec == Init /\ [][Next]_vars

(***************************************************************************)
(* What an invocation has done                                             *)
(***************************************************************************)
\* the positions of the calls of op among the calls of invocation i
CallsOf(i, op) == {k \in 1..Len(inv[i].calls) : inv[i].calls[k].op = op}

HasCall(i, op) == CallsOf(i, op) # {}

\* invocation i found the bot among the administrators / did not
AdminMode(i) == inv[i].admin_ids # None /\ Ids.bot \in Get(inv[i].admin_ids)
CanaryMode(i) == inv[i].admin_ids # None /\ Ids.bot \notin Get(inv[i].admin_ids)

Abs(n) == IF n < 0 THEN -n ELSE n

(***************************************************************************)
(* Sequential dispatch: Bot.start builds the application with its defaults *)
(* (no concurrent updates, blocking handlers), so an update is handled to  *)
(* its end before the next one is taken                                    *)
(***************************************************************************)
Finished(i) == inv[i].pc \in {"done", "raised"}

DispatchNext(i, update) ==
    /\ \A j \in Invs : j < i => Finished(j)
    /\ HandleMessage(i, update)

NextSeq ==
    \/ BotInit
    \/ \E i \in Invs, u \in Updates : DispatchNext(i, u)
    \/ \E i \in Invs, a \in AdminLists : AdminsReturn(i, a)
    \/ \E i \in Invs : CallFails(i)
    \/ \E i \in Invs : DeleteReturn(i)
    \/ \E i \in Invs : SendReturn(i)
    \/ \E t \in Instants : Tick(t)

SpecSeq == Init /\ [][NextSeq]_vars

(***************************************************************************)
(* Fair scheduling: the event loop resumes every coroutine whose awaited   *)
(* call has completed, and every call on context.bot eventually returns or *)
(* raises                                                                  *)
(***************************************************************************)
\* the awaited call of invocation i completes: it returns or it raises
CallCompletes(i) ==
    \/ \E a \in AdminLists : AdminsReturn(i, a)
    \/ DeleteReturn(i)
    \/ SendReturn(i)
    \/ CallFails(i)

Fairness == \A i \in Invs : WF_vars(CallCompletes(i))

SpecFair == Init /\ [][Next]_vars /\ Fairness

(***************************************************************************)
(* One update, drawn from every update over every content                  *)
(***************************************************************************)
NextOne ==
    \/ BotInit
    \/ \E u \in AllUpdates : HandleMessage(1, u)
    \/ \E a \in AdminLists : AdminsReturn(1, a)
    \/ CallFails(1)
    \/ DeleteReturn(1)
    \/ SendReturn(1)
    \/ \E t \in Instants : Tick(t)

SpecOne == Init /\ [][NextOne]_vars

(***************************************************************************)
(* FilterResult.append on its own: a chain first.append(o1).append(o2)...  *)
(* over every FilterResult of the bounded universe                         *)
(***************************************************************************)
\* explanation lists: absent, present and empty, one string, two strings
Explanations ==
    {None, Some(<<>>), Some(<< <<"x">> >>), Some(<< <<"y">> >>), Some(<< <<"x">>, <<"y">> >>)}

FilterResults == {FilterResult(v, e) : v \in Verdict, e \in Explanations}

\* the longest chain of appends
MaxOperands == 2

SeqsUpTo(S, n) == UNION {[1..m -> S] : m \in 0..n}

InitAppend ==
    /\ cfg = <<>>
    /\ bot = "new"
    /\ _filters = <<>>
    /\ _last_post = None
    /\ clock = 0
    /\ inv = [i \in Invs |-> Idle]
    /\ first \in FilterResults
    /\ operands \in SeqsUpTo(FilterResults, MaxOperands)
    /\ result = first
    /\ appended = 0

\* verdict = verdict.append(other), other the next operand
AppendNext ==
    /\ appended < Len(operands)
    /\ result' = append(result, operands[appended + 1])
    /\ appended' = appended + 1
    /\ UNCHANGED <<first, operands>>
    /\ UNCHANGED botVars

NextAppend == AppendNext

SpecAppend == InitAppend /\ [][NextAppend]_vars


(***************************************************************************)
(* Throttle and enforcement                                                *)
(***************************************************************************)
\* C1: of the concurrent invocations that read the clock within one cooldown
\* window (less than COOLDOWN seconds apart), at most one issues a warning
\* send_message.
C1_OneWarningPerWindow ==
    \A i, j \in Invs :
        (i # j /\ HasCall(i, "send_message") /\ HasCall(j, "send_message"))
            => Abs(Get(inv[i].now) - Get(inv[j].now)) >= COOLDOWN

\* SCAM verdicts i and j handled in canary mode one right after the other, the
\* first with a warning sent successfully
ConsecutiveWarnings(i, j) ==
    /\ i < j
    /\ CanaryMode(i) /\ inv[i].pc = "done" /\ HasCall(i, "send_message")
    /\ CanaryMode(j)
    /\ \A k \in Invs : (i < k /\ k < j) => inv[k].now = None

\* C2: when two SCAM verdicts are handled in canary mode one after the other,
\* the first with a successful send, the second sends no warning if its clock
\* reading is less than 60 seconds after the first's (one warning in total) and
\* sends one if it is 60 seconds or more after (two in total).
C2_SequentialThrottle ==
    \A i, j \in Invs :
        ConsecutiveWarnings(i, j) =>
            /\ Cardinality(CallsOf(i, "send_message")) = 1
            /\ IF Get(inv[j].now) - Get(inv[i].now) < COOLDOWN
               THEN Cardinality(CallsOf(j, "send_message")) = 0
               ELSE Cardinality(CallsOf(j, "send_message")) = 1

\* the second verdict comes 59 seconds after the first and is suppressed
C2_Witness ==
    \E i, j \in Invs :
        /\ ConsecutiveWarnings(i, j)
        /\ Get(inv[j].now) - Get(inv[i].now) = COOLDOWN - 1
        /\ inv[j].pc = "done"
        /\ ~HasCall(j, "send_message")

\* C3: in admin mode _handle_scam issues exactly one delete_message, for the
\* offending message of the chat, and no send_message, whatever _last_post is.
C3_AdminModeDeletesOnce ==
    \A i \in Invs :
        AdminMode(i) =>
            /\ Cardinality(CallsOf(i, "delete_message")) = 1
            /\ \A k \in CallsOf(i, "delete_message") :
                  inv[i].calls[k] = Call("delete_message",
                                         Get(inv[i].update).effective_chat.id,
                                         MsgOf(Get(inv[i].update)).message_id)
            /\ ~HasCall(i, "send_message")

\* a message is deleted while the last warning is less than 60 seconds old
C3_Witness ==
    \E i \in Invs :
        /\ AdminMode(i)
        /\ inv[i].pc = "delete"
        /\ Throttled(_last_post, clock)

\* C4: _handle_message invokes the enforcement step (whose first call is the
\* administrator lookup) if and only if the aggregate verdict of the filters is
\* at least SCAM; SAFE and QUESTIONABLE produce no call at all.
C4_EnforcementIffScam ==
    \A i \in Invs :
        inv[i].verdict # None =>
            (inv[i].calls # <<>> <=> Get(inv[i].verdict).verdict >= SCAM)

(***************************************************************************)
(* The algebra of FilterResult.append                                      *)
(***************************************************************************)
\* how often string x occurs in the explanation e (an absent one has no strings)
Occurrences(e, x) == Cardinality({k \in 1..Len(OrEmpty(e)) : OrEmpty(e)[k] = x})

\* explanations d and e are both absent or both present, with the same strings
\* the same number of times
SameStrings(d, e) ==
    /\ (d = None) <=> (e = None)
    /\ Len(OrEmpty(d)) = Len(OrEmpty(e))
    /\ \A k \in 1..Len(OrEmpty(d)) : Occurrences(d, OrEmpty(d)[k]) = Occurrences(e, OrEmpty(d)[k])

\* C5 as stated: a.append(b) equals b.append(a) as a whole FilterResult, for all
\* FilterResults a and b.
C5_AppendCommutes ==
    appended = 1 => result = append(operands[1], first)

\* C5 amended: a.append(b) and b.append(a) have the same verdict, and their
\* explanations are both absent or both present with the same strings the same
\* number of times; only the order of the strings may differ, and it does not
\* when one of the two explanations is absent or empty.
C5_AppendCommutesUpToOrder ==
    appended = 1 =>
        /\ result.verdict = append(operands[1], first).verdict
        /\ SameStrings(result.explanation, append(operands[1], first).explanation)
        /\ (~Truthy(first.explanation) \/ ~Truthy(operands[1].explanation))
              => result = append(operands[1], first)

\* two results with different non-empty explanations and different verdicts have
\* been merged
C5_Witness ==
    /\ appended = 1
    /\ Truthy(first.explanation) /\ Truthy(operands[1].explanation)
    /\ first.explanation # operands[1].explanation
    /\ first.verdict # operands[1].verdict
    /\ result # append(operands[1], first)

\* C6: a.append(b).append(c) equals a.append(b.append(c)), verdict and
\* explanation, for all FilterResults a, b, c.
C6_AppendAssociates ==
    appended = 2 => result = append(first, append(operands[1], operands[2]))

\* a chain of an absent, an empty and a non-empty explanation has been merged
C6_Witness ==
    /\ appended = 2
    /\ first.explanation = None
    /\ operands[1].explanation = Some(<<>>)
    /\ Truthy(operands[2].explanation)
    /\ first.verdict > operands[1].verdict

\* C7: FilterResult.empty() is the identity of append on both sides, for every
\* FilterResult a, also one whose explanation is an empty list; the aggregate
\* over no filters is FilterResult.empty().
C7_EmptyIsIdentity ==
    /\ appended = 1 =>
          /\ first = empty => result = operands[1]
          /\ operands[1] = empty => result = first
    /\ (first = empty /\ operands = <<>>) => result = empty

(***************************************************************************)
(* Extraction and the blocklist                                            *)
(***************************************************************************)
\* the string an entity of a text (a message's text or caption) covers
Span(text, e) == SubSeq(Get(text), e.offset + 1, e.offset + e.length)

\* the canonical reference of an entity whose span or target is raw: the host of
\* a url or text_link (none if raw cannot be parsed), the lowercased mention
CanonicalOf(type, raw) ==
    IF type = "mention" THEN {StrLower(raw)}
    ELSE IF type \in {"url", "text_link"}
    THEN IF _host(raw).ok THEN {_host(raw).val} ELSE {}
    ELSE {}

\* the raw reference of an entity e of a text
RawOf(text, e) == IF e.type = "text_link" THEN Get(e.url) ELSE Span(text, e)

\* the canonical references of a message: those of the entities of its text and
\* those of the entities of its caption
CanonicalRefs(msg) ==
    UNION ({CanonicalOf(msg.entities[k].type, RawOf(msg.text, msg.entities[k])) :
               k \in 1..Len(msg.entities)}
           \cup
           {CanonicalOf(msg.caption_entities[k].type,
                        RawOf(msg.caption, msg.caption_entities[k])) :
               k \in 1..Len(msg.caption_entities)})

\* the references of the message of an update that assess scans
ScannedRefs(update) ==
    IF AssessSlot(update) = "none" THEN {} ELSE CanonicalRefs(Get(update[AssessSlot(update)]))

\* s split at its spaces
RECURSIVE Tokens(_)
Tokens(s) ==
    IF Find(s, <<" ">>, 1) = 0 THEN <<s>>
    ELSE <<SubSeq(s, 1, Find(s, <<" ">>, 1) - 1)>>
         \o Tokens(SubSeq(s, Find(s, <<" ">>, 1) + 1, Len(s)))

\* str is "Message mentions blocked content: " followed by the strings of isec,
\* sorted and separated by single spaces
NamesSorted(str, isec) ==
    /\ Len(str) > Len(ExplanationPrefix)
    /\ SubSeq(str, 1, Len(ExplanationPrefix)) = ExplanationPrefix
    /\ With(Tokens(SubSeq(str, Len(ExplanationPrefix) + 1, Len(str))),
            LAMBDA toks : /\ {toks[k] : k \in 1..Len(toks)} = isec
                          /\ \A k \in 1..(Len(toks) - 1) : StrLess(toks[k], toks[k + 1]))

\* r is what the claim expects of assess for the intersection isec
MeetsBlocklistContract(r, isec) ==
    /\ r.ok
    /\ IF isec # {}
       THEN /\ r.val.verdict = SCAM
            /\ r.val.explanation # None
            /\ Len(Get(r.val.explanation)) = 1
            /\ NamesSorted(Get(r.val.explanation)[1], isec)
       ELSE r.val = FilterResult(SAFE, None)

\* C8: for every update handled and every configured blocklist, assess returns
\* SCAM exactly when the canonical references of the scanned message (text and
\* caption entities) meet the blocklist, with the one-string explanation naming
\* the intersection sorted and space-joined; otherwise SAFE with no explanation.
C8_AssessMatchesBlocklist ==
    \A i \in Invs : \A k \in 1..Len(_filters) :
        inv[i].update # None =>
            MeetsBlocklistContract(assess(_filters[k].blocklist, Get(inv[i].update)),
                                   ScannedRefs(Get(inv[i].update)) \cap _filters[k].blocklist)

\* msg has a url or text_link reference that cannot be parsed as a URL
HasUnparseable(msg) ==
    \/ \E k \in 1..Len(msg.entities) :
          /\ msg.entities[k].type \in {"url", "text_link"}
          /\ ~_host(RawOf(msg.text, msg.entities[k])).ok
    \/ \E k \in 1..Len(msg.caption_entities) :
          /\ msg.caption_entities[k].type \in {"url", "text_link"}
          /\ ~_host(RawOf(msg.caption, msg.caption_entities[k])).ok

\* C9: a reference that cannot be parsed as a URL is dropped alone: the
\* handler does not end with the parser's exception, and a sibling reference
\* on a configured blocklist still gives a SCAM verdict and the enforcement
\* step.
C9_MalformedUrlDropped ==
    \A i \in Invs :
        (/\ inv[i].update # None
         /\ _filters # <<>>
         /\ AssessSlot(Get(inv[i].update)) # "none"
         /\ HasUnparseable(Get(Get(inv[i].update)[AssessSlot(Get(inv[i].update))])))
        => /\ inv[i].exc # "ValueError"
           /\ (\E k \in 1..Len(_filters) :
                  ScannedRefs(Get(inv[i].update)) \cap _filters[k].blocklist # {})
                 => /\ inv[i].verdict # None
                    /\ Get(inv[i].verdict).verdict = SCAM
                    /\ HasCall(i, "get_chat_administrators")

\* the first slot of the update that holds a message ("none" without one)
FirstNonNull(update) ==
    IF update.message # None THEN "message"
    ELSE IF update.edited_message # None THEN "edited_message"
    ELSE "none"

\* C10: the filters scan only the first non-null message among message and
\* edited_message, never both; with neither present the handler returns with
\* nothing scanned, no filter evaluated and no call issued.
C10_ScansFirstNonNull ==
    \A i \in Invs :
        inv[i].update # None =>
            /\ inv[i].scanned \subseteq {FirstNonNull(Get(inv[i].update))}
            /\ Cardinality(inv[i].scanned) <= 1
            /\ FirstNonNull(Get(inv[i].update)) = "none"
                 => /\ inv[i].pc = "done"
                    /\ inv[i].scanned = {}
                    /\ inv[i].verdict = None
                    /\ inv[i].calls = <<>>

(***************************************************************************)
(* Failures of the transport                                               *)
(***************************************************************************)
\* invocation i is suspended in a call on context.bot
Awaiting(i) == inv[i].pc \in {"lookup", "delete", "send"}

\* C11: when a call of the enforcement step fails (get_chat_administrators,
\* delete_message or send_message raises), the invocation ends with that error
\* and issues no further call, and _last_post is what it was before the message:
\* no step of an invocation other than the one that completes it writes
\* _last_post, and the failing step leaves _last_post and the filters alone, so
\* a later SCAM message meets the state it would have met without the failed one.
C11_FailureLeavesThrottle ==
    [][\A i \in Invs :
          /\ (inv'[i] # inv[i] /\ inv'[i].pc # "done") => _last_post' = _last_post
          /\ (Awaiting(i) /\ inv'[i].pc = "raised")
                => /\ _last_post' = _last_post
                   /\ _filters' = _filters
                   /\ inv'[i].calls = inv[i].calls
                   /\ inv'[i].exc = "TelegramError"]_vars

\* a send_message failed, and a later invocation that read the clock less than
\* COOLDOWN seconds after the failed one has sent its warning
C11_Witness ==
    \E i, j \in Invs :
        /\ i < j
        /\ inv[i].pc = "raised" /\ inv[i].exc = "TelegramError"
        /\ HasCall(i, "send_message")
        /\ inv[j].pc = "done" /\ HasCall(j, "send_message")
        /\ Get(inv[j].now) - Get(inv[i].now) < COOLDOWN
        /\ _last_post = inv[j].now

(***************************************************************************)
(* The aggregate verdict of a list of filters                              *)
(***************************************************************************)
\* `for f in self._filters: verdict = verdict.append(f.assess(update))`, over the
\* results of the filters
RECURSIVE FoldAppend(_, _)
FoldAppend(verdict, results) ==
    IF results = <<>> THEN verdict
    ELSE FoldAppend(append(verdict, Head(results)), Tail(results))

\* the results in the order p, a permutation of their positions
Permuted(results, p) == [k \in 1..Len(results) |-> results[p[k]]]

\* the most severe verdict among the results, SAFE for none
RECURSIVE MaxVerdict(_)
MaxVerdict(results) ==
    IF results = <<>> THEN SAFE ELSE Max(Head(results).verdict, MaxVerdict(Tail(results)))

\* C12: the aggregate of a list of filter results, folded with append from
\* FilterResult.empty(), has the maximum of the results' verdicts (SAFE for an
\* empty list), and folding any permutation of the list gives the same verdict
\* and the same explanation strings; only their order may differ.
C12_FoldOrderIndependent ==
    (first = empty /\ appended = Len(operands)) =>
        /\ result.verdict = MaxVerdict(operands)
        /\ \A p \in Permutations(1..Len(operands)) :
              With(FoldAppend(empty, Permuted(operands, p)),
                   LAMBDA r : /\ r.verdict = result.verdict
                              /\ SameStrings(r.explanation, result.explanation))

\* two results have been folded, the more severe one first, and the other order
\* gives another explanation
C12_Witness ==
    /\ first = empty
    /\ appended = 2
    /\ operands[1].verdict = SCAM /\ operands[2].verdict = SAFE
    /\ result.verdict = SCAM
    /\ FoldAppend(empty, <<operands[2], operands[1]>>).explanation # result.explanation

(***************************************************************************)
(* Configuration errors                                                    *)
(***************************************************************************)
\* some record of the configured filter list names a type FILTERS does not have
HasUnknownFilter(filters) == \E k \in 1..Len(filters) : filters[k].filter \notin FILTERS

\* C13: when a record of the configured filter list names a filter type that is
\* not in FILTERS, Bot(cfg) fails: once attempted, no Bot is running, no filter
\* is in operation (not even those listed before the unknown one) and no message
\* is ever handled.
C13_UnknownFilterIsFatal ==
    HasUnknownFilter(cfg) =>
        /\ bot \in {"new", "failed"}
        /\ _filters = <<>>
        /\ \A i \in Invs : inv[i] = Idle

\* construction has failed on a list whose first record is a known filter
C13_Witness ==
    /\ bot = "failed"
    /\ Len(cfg) = 2
    /\ cfg[1].filter \in FILTERS
    /\ cfg[2].filter \notin FILTERS

(***************************************************************************)
(* The merged explanation                                                  *)
(***************************************************************************)
\* the strings of explanation e, none for an absent one
Strings(e) == IF e = None THEN <<>> ELSE Get(e)

\* C14: the explanation of a.append(b) is a's explanation followed by b's, an
\* absent explanation counting as empty, whatever the two verdicts are; the
\* merged explanation is absent only if both a's and b's are absent.
C14_ExplanationConcatenates ==
    appended = 1 =>
        /\ Strings(result.explanation)
              = Strings(first.explanation) \o Strings(operands[1].explanation)
        /\ result.explanation = None
              => (first.explanation = None /\ operands[1].explanation = None)

(***************************************************************************)
(* The outcome of one message                                              *)
(***************************************************************************)
\* the calls invocation i has issued are exactly ops, in this order, each on its
\* chat and, for an action, on its message
IssuedExactly(i, ops) ==
    /\ Len(inv[i].calls) = Len(ops)
    /\ \A k \in 1..Len(ops) :
          inv[i].calls[k] = Call(ops[k], inv[i].chat_id,
                                 IF k = 1 THEN 0 ELSE inv[i].reply_to)

\* the four outcomes of a message
NO_ACTION(i) ==
    /\ inv[i].verdict = None \/ Get(inv[i].verdict).verdict # SCAM
    /\ inv[i].calls = <<>>
DELETE(i) ==
    /\ AdminMode(i)
    /\ IssuedExactly(i, <<"get_chat_administrators", "delete_message">>)
WARN(i) ==
    /\ CanaryMode(i)
    /\ IssuedExactly(i, <<"get_chat_administrators", "send_message">>)
THROTTLED_NO_OP(i) ==
    /\ CanaryMode(i)
    /\ IssuedExactly(i, <<"get_chat_administrators">>)

OutcomesOf(i) ==
    {o \in {"NO_ACTION", "DELETE", "WARN", "THROTTLED_NO_OP"} :
        \/ o = "NO_ACTION" /\ NO_ACTION(i)
        \/ o = "DELETE" /\ DELETE(i)
        \/ o = "WARN" /\ WARN(i)
        \/ o = "THROTTLED_NO_OP" /\ THROTTLED_NO_OP(i)}

\* at every moment of invocation i: at most one administrator lookup, made
\* first, then at most one action, a delete or a warning
AtMostOneAction(i) ==
    \/ inv[i].calls = <<>>
    \/ IssuedExactly(i, <<"get_chat_administrators">>)
    \/ IssuedExactly(i, <<"get_chat_administrators", "delete_message">>)
    \/ IssuedExactly(i, <<"get_chat_administrators", "send_message">>)

InCooldown == _last_post # None /\ clock - Get(_last_post) < COOLDOWN

\* C16: the cooldown is one clock for the process, not one per chat: when
\* get_chat_administrators returns for a SCAM message while the last warning,
\* sent in whatever chat, is less than 60 seconds old, a chat without the bot as
\* administrator gets no warning, and a chat with the bot as administrator gets
\* its delete all the same; _last_post is always the time of a warning some
\* invocation has sent.
C16_CooldownIsGlobal ==
    /\ [][\A j \in Invs :
            (inv[j].pc = "lookup" /\ inv'[j].admin_ids # None /\ InCooldown) =>
                IF Ids.bot \in Get(inv'[j].admin_ids)
                THEN /\ inv'[j].pc = "delete"
                     /\ inv'[j].calls
                          = inv[j].calls
                              \o <<Call("delete_message", inv[j].chat_id, inv[j].reply_to)>>
                ELSE /\ inv'[j].pc = "done"
                     /\ inv'[j].calls = inv[j].calls]_vars
    /\ [](_last_post # None
            => \E i \in Invs : /\ inv[i].pc = "done"
                               /\ HasCall(i, "send_message")
                               /\ inv[i].now = _last_post)

\* a warning was sent in one chat, and a SCAM message of another chat, handled in
\* canary mode less than COOLDOWN seconds later, got none
C16_Witness ==
    \E i, j \in Invs :
        /\ inv[i].pc = "done" /\ HasCall(i, "send_message")
        /\ _last_post = inv[i].now
        /\ inv[j].pc = "done" /\ CanaryMode(j) /\ ~HasCall(j, "send_message")
        /\ inv[j].chat_id # inv[i].chat_id
        /\ Get(inv[j].now) - Get(inv[i].now) \in 0..(COOLDOWN - 1)

(***************************************************************************)
(* Who writes the throttle                                                 *)
(***************************************************************************)
\* C17: _last_post changes only in the step in which the send_message of a
\* canary-mode invocation has returned, and becomes the time that invocation
\* read; every other step (a message with a non-SCAM verdict, an admin-mode
\* delete, a suppressed warning, a failure) leaves it unchanged.  So a
\* suppressed message does not extend the cooldown: a SCAM message handled in
\* canary mode COOLDOWN seconds or more after the last warning gets its warning.
C17_OnlyWarningsStamp ==
    [][/\ _last_post' # _last_post
            => \E i \in Invs : /\ inv[i].pc = "send" /\ inv'[i].pc = "done"
                               /\ CanaryMode(i)
                               /\ inv[i].calls[Len(inv[i].calls)].op = "send_message"
                               /\ _last_post' = inv[i].now
       /\ \A j \in Invs :
            (/\ inv[j].pc = "lookup" /\ inv'[j].admin_ids # None
             /\ Ids.bot \notin Get(inv'[j].admin_ids)
             /\ ~InCooldown)
                => /\ inv'[j].pc = "send"
                   /\ inv'[j].calls
                        = inv[j].calls
                            \o <<Call("send_message", inv[j].chat_id, inv[j].reply_to)>>]_vars

\* a warning was sent, a later SCAM message was suppressed COOLDOWN - 1 seconds
\* after it, and COOLDOWN seconds after the warning the cooldown is over
C17_Witness ==
    \E i, j \in Invs :
        /\ inv[i].pc = "done" /\ HasCall(i, "send_message")
        /\ inv[j].pc = "done" /\ CanaryMode(j) /\ ~HasCall(j, "send_message")
        /\ Get(inv[j].now) - Get(inv[i].now) = COOLDOWN - 1
        /\ _last_post = inv[i].now
        /\ clock - Get(_last_post) = COOLDOWN
        /\ ~InCooldown

(***************************************************************************)
(* Termination                                                             *)
(***************************************************************************)
\* C18: with a fair scheduler and calls on context.bot that eventually return
\* or raise, every invocation of _handle_message that has started eventually
\* ends, by completing or by its first error, whatever the other invocations
\* do: none waits on another.
C18_EveryMessageTerminates ==
    \A i \in Invs : (inv[i].pc # "idle") ~> Finished(i)

\* the second invocation has completed with its warning while the first is
\* still waiting for its administrator lookup
C18_Witness ==
    /\ inv[1].pc = "lookup"
    /\ inv[2].pc = "done"
    /\ HasCall(2, "send_message")

(***************************************************************************)
(* The throttle over time                                                  *)
(***************************************************************************)
\* C19: the clock never goes back, and neither does _last_post: once set it
\* stays set, and no step, under any interleaving of the invocations, replaces
\* it by an earlier time.
C19_LastPostNeverDecreases ==
    [][/\ clock' >= clock
       /\ _last_post # None
            => /\ _last_post' # None
               /\ Get(_last_post') >= Get(_last_post)]_vars

(***************************************************************************)
(* The message acted on                                                    *)
(***************************************************************************)
\* C20: for every update, the message BlocklistFilter.assess scans is the one
\* _handle_message selects with `update.message or update.edited_message`: when
\* the verdict is SCAM, the scanned message is the first non-null one, the
\* selection of its sender id and message id does not fail on a missing
\* sender, and the enforcement step is given that message's sender and id.
C20_SameMessageSelected ==
    \A i \in Invs :
        (inv[i].verdict # None /\ Get(inv[i].verdict).verdict = SCAM) =>
            /\ inv[i].scanned = {FirstNonNull(Get(inv[i].update))}
            /\ inv[i].exc # "AttributeError"
            /\ inv[i].reply_to = MessageId[AssessSlot(Get(inv[i].update))]
            /\ Some([id |-> inv[i].message_from])
                 = Get(Get(inv[i].update)[AssessSlot(Get(inv[i].update))]).from_user

====
